---- MODULE Spec2Model ----
(***************************************************************************)
(* Model of leo_triplet_3d.py: the Leo Triplet 3D view.                    *)
(*                                                                         *)
(* Numbers.  The program computes in IEEE-754 binary64.  The model keeps   *)
(* the finite precision but at reduced width: every real quantity is an    *)
(* integer count of 1/Scale (kpc, plain ratios) or of 1/AngUnit (hours,    *)
(* degrees), and every operation whose exact result is not on that grid    *)
(* (a division, a product of two fractions, a square root) is rounded to   *)
(* the nearest grid value, ties to even, as the hardware does.  Sums and   *)
(* differences of grid values are exact.                                   *)
(***************************************************************************)
EXTENDS Integers, Sequences, FiniteSets, TLC

VARIABLES
    table,          \* GalaxyData.RA / DEC / REDSHIFT
    config,         \* the Config the plotter uses
    pc,             \* position of main()
    stdout,         \* lines printed so far
    exc,            \* type and message of the exception in flight
    handled,        \* times the except clause of main() ran
    positions,      \* LeoTripletPlotter.positions
    events,         \* calls completed so far, in order
    triangle,       \* edges and labels drawn by plot_triangle
    tailArt,        \* the scatter layer drawn by plot_tidal_tail
    limits,         \* axis limits of the 3D axes
    view,           \* elev / azim of the 3D axes
    zoomConnected,  \* on_scroll registered with the canvas
    scrollLog,      \* scroll events handled so far
    reportedTailDir \* the direction verify_conventions printed

vars == <<table, config, pc, stdout, exc, handled, positions, events,
          triangle, tailArt, limits, view, zoomConnected, scrollLog,
          reportedTailDir>>

(***************************************************************************)
(* Bounds of the model.                                                    *)
(***************************************************************************)
MaxTailPoints == 2
MaxScroll == 3

(***************************************************************************)
(* Finite-precision arithmetic.                                            *)
(***************************************************************************)
Scale == 10 * 10
AngUnit == 60 * 60

Abs(x) == IF x < 0 THEN -x ELSE x

Min(S) == CHOOSE x \in S : \A y \in S : x <= y

Max(S) == CHOOSE x \in S : \A y \in S : x >= y

\* a / b rounded to the nearest integer, ties to even (b > 0)
RoundDiv(a, b) ==
    LET q == a \div b
        r == a % b
    IN  IF 2 * r < b THEN q
        ELSE IF 2 * r > b THEN q + 1
        ELSE IF q % 2 = 0 THEN q ELSE q + 1

\* product and quotient of two grid values
FMul(a, b) == RoundDiv(a * b, Scale)

FDiv(a, b) == IF b > 0 THEN RoundDiv(a * Scale, b) ELSE RoundDiv((-a) * Scale, -b)

RECURSIVE FloorSqrt(_)
FloorSqrt(n) ==
    IF n < 2 THEN n
    ELSE LET s == 2 * FloorSqrt(n \div 4)
         IN  IF (s + 1) * (s + 1) > n THEN s ELSE s + 1

\* square root of an integer, rounded to the nearest integer
Sqrt(n) == LET r == FloorSqrt(n) IN IF n - r * r > r THEN r + 1 ELSE r

VAdd(u, v) == <<u[1] + v[1], u[2] + v[2], u[3] + v[3]>>

VSub(u, v) == <<u[1] - v[1], u[2] - v[2], u[3] - v[3]>>

\* np.linalg.norm of a 3-vector of grid values
Norm(v) == Sqrt(v[1] * v[1] + v[2] * v[2] + v[3] * v[3])

Zero3 == <<0, 0, 0>>

(***************************************************************************)
(* Config                                                                  *)
(***************************************************************************)
AXIS_LIMIT == 150
TAIL_LENGTH == 86
TAIL_WIDTH == 4
\* TAIL_ALPHA = 0.2
TAIL_ALPHA == (2 * Scale) \div 10
\* TAIL_DIRECTION = [1.0, 0.15, -0.1]
TAIL_DIRECTION == <<Scale, (15 * Scale) \div 100, -(Scale \div 10)>>
\* ZOOM_SCALE = 1.2 = ZoomNum / ZoomDen
ZoomNum == 12
ZoomDen == 10

DefaultConfig(n) == [TAIL_POINTS |-> n, TAIL_DIRECTION |-> TAIL_DIRECTION]

(***************************************************************************)
(* GalaxyData                                                              *)
(***************************************************************************)
Names == <<"NGC 3628", "M66", "M65">>

NameSet == {Names[i] : i \in 1..3}

\* hours, minutes, seconds (degrees, arcminutes, arcseconds) in 1/AngUnit
Sexagesimal(h, m, s) == h * AngUnit + m * 60 + s

RA == [n \in NameSet |->
        IF n = "NGC 3628" THEN Sexagesimal(11, 20, 17)
        ELSE IF n = "M66" THEN Sexagesimal(11, 20, 15)
        ELSE Sexagesimal(11, 18, 56)]

DEC == [n \in NameSet |->
        IF n = "NGC 3628" THEN Sexagesimal(13, 35, 23)
        ELSE IF n = "M66" THEN Sexagesimal(12, 59, 30)
        ELSE Sexagesimal(13, 5, 32)]

REDSHIFT == [n \in NameSet |->
        IF n = "NGC 3628" THEN 843 ELSE IF n = "M66" THEN 727 ELSE 807]

DEGREE_TO_KPC == 187

GalaxyTable == [ra |-> RA, dec |-> DEC, redshift |-> REDSHIFT]

\* np.radians: degrees (1/AngUnit) to radians (1/Scale), pi as 355/113
Radians(deg) == RoundDiv(deg * 355, 113 * 180 * (AngUnit \div Scale))

\* np.cos by its series 1 - x^2/2 + x^4/24, each term rounded
Cos(x) ==
    LET x2 == FMul(x, x)
        x4 == FMul(x2, x2)
    IN  Scale - RoundDiv(x2, 2) + RoundDiv(x4, 24)

\* degrees (1/AngUnit) times DEGREE_TO_KPC, in kpc (1/Scale)
DegreesToKpc(deg) == RoundDiv(deg * DEGREE_TO_KPC * Scale, AngUnit)

get_positions_relative_to_ngc3628(t) ==
    LET ra_deg == [n \in NameSet |-> t.ra[n] * 15]
        ra_ngc == ra_deg["NGC 3628"]
        dec_ngc == t.dec["NGC 3628"]
        z_ngc == t.redshift["NGC 3628"]
    IN  [n \in NameSet |->
            <<FMul(DegreesToKpc(ra_deg[n] - ra_ngc), Cos(Radians(dec_ngc))),
              DegreesToKpc(t.dec[n] - dec_ngc),
              RoundDiv((t.redshift[n] - z_ngc) * Scale, 10)>>]

get_center_div2(t) ==
    LET p == get_positions_relative_to_ngc3628(t)
    IN  [k \in 1..3 |->
            RoundDiv(p[Names[1]][k] + p[Names[2]][k] + p[Names[3]][k], 2)]

\* np.mean(positions, axis=0)
get_center(t) ==
    LET p == get_positions_relative_to_ngc3628(t)
    IN  [k \in 1..3 |->
            RoundDiv(p[Names[1]][k] + p[Names[2]][k] + p[Names[3]][k], 3)]

get_positions_uncentered(t) == get_positions_relative_to_ngc3628(t)

get_positions(t) ==
    LET rel_to_ngc == get_positions_relative_to_ngc3628(t)
        center == get_center(t)
    IN  [n \in NameSet |-> VSub(rel_to_ngc[n], center)]

get_tail_direction == <<Scale, (15 * Scale) \div 100, -(Scale \div 10)>>

\* the message of the first assert of verify_conventions that fails for
\* galaxy n at pos, "" when none does
FailedAssert(n, pos) ==
    IF n = "NGC 3628" THEN
        IF pos[2] > 0 THEN "" ELSE "NGC 3628 should be North of center"
    ELSE IF n = "M66" THEN
        IF ~(pos[1] > 0) THEN "M66 should be East of center"
        ELSE IF ~(pos[2] < 0) THEN "M66 should be South of center"
        ELSE ""
    ELSE
        IF ~(pos[1] < 0) THEN "M65 should be West of center"
        ELSE IF ~(pos[2] < 0) THEN "M65 should be South of center"
        ELSE ""

\* index of the first galaxy, in dictionary order, with a failing assert
FirstFailure(p) ==
    LET bad == {i \in 1..3 : FailedAssert(Names[i], p[Names[i]]) # ""}
    IN  IF bad = {} THEN 0 ELSE Min(bad)

VerifyHeader == <<"SIGN CONVENTION VERIFICATION", "VIEWING GEOMETRY (azim=-90):">>

\* the check mark verify_conventions prints after a galaxy's asserts
OkLine(n) ==
    IF n = "NGC 3628" THEN "[ok] NGC 3628 is NORTH (appears UP)"
    ELSE IF n = "M66" THEN "[ok] M66 is EAST and SOUTH (appears DOWN, LEFT)"
    ELSE "[ok] M65 is WEST and SOUTH (appears DOWN, RIGHT)"

RECURSIVE GalaxyLines(_, _)
\* what the loop of verify_conventions prints for galaxies 1..last; the
\* last one's check mark only when ok
GalaxyLines(last, ok) ==
    IF last = 0 THEN <<>>
    ELSE GalaxyLines(last - 1, TRUE)
         \o <<Names[last]>>
         \o (IF ok THEN <<OkLine(Names[last])>> ELSE <<>>)

NoExc == [type |-> "none", msg |-> ""]

ExceptionTypesWithoutAssert == {"ValueError", "EnvironmentError"}

\* exception classes that derive from Exception
ExceptionTypes == {"AssertionError", "ValueError", "EnvironmentError"}

\* exception classes that derive from BaseException only
BaseOnlyTypes == {"KeyboardInterrupt"}


(***************************************************************************)
(* TidalTail                                                               *)
(***************************************************************************)
\* values np.random.beta(0.6, 1.8) may return, in 1/Scale
TSamples == {Scale \div 20, Scale \div 2, Scale - Scale \div 20}

\* rows np.random.normal(0, TAIL_WIDTH) may return, in 1/Scale
NoiseSamples == {Zero3, <<TAIL_WIDTH * Scale, -(TAIL_WIDTH * Scale), 2 * Scale>>}

BetaDrawsShort(n) == [1..(IF n > 0 THEN n - 1 ELSE 0) -> TSamples]

\* np.random.beta(0.6, 1.8, n): every array of n samples
BetaDraws(n) == [1..n -> TSamples]

\* np.random.normal(0, TAIL_WIDTH, size=(n, 3)): every array of n rows
NormalDraws(n) == [1..n -> NoiseSamples]

\* direction / np.linalg.norm(direction) * TAIL_LENGTH
TailVector(cfg) ==
    LET d == cfg.TAIL_DIRECTION
        n == Norm(d)
    IN  [k \in 1..3 |-> FDiv(d[k], n) * TAIL_LENGTH]

\* np.dot of two 3-vectors
Dot(u, v) == FMul(u[1], v[1]) + FMul(u[2], v[2]) + FMul(u[3], v[3])

generate(cfg, galaxy_positions, t, noise0) ==
    LET ngc_pos == galaxy_positions["NGC 3628"]
        direction == TailVector(cfg)
        points == [i \in DOMAIN t |->
                     [k \in 1..3 |-> ngc_pos[k] + FMul(t[i], direction[k])]]
        dnorm == Norm(direction)
        dir_unit == [k \in 1..3 |-> FDiv(direction[k], dnorm)]
        noise == [i \in DOMAIN noise0 |->
                     [k \in 1..3 |->
                        noise0[i][k] - FMul(Dot(noise0[i], dir_unit), dir_unit[k])]]
        t_centered == [i \in DOMAIN t |-> t[i] - Scale \div 2]
        curvature == [i \in DOMAIN points |->
                        <<t_centered[i] * 5, t_centered[i] * 8,
                          Abs(t_centered[i]) * 5>>]
    IN  [i \in DOMAIN points |-> VAdd(VAdd(points[i], noise[i]), curvature[i])]

(***************************************************************************)
(* LeoTripletPlotter                                                       *)
(***************************************************************************)
TriangleEdgesRepeated == <<<<1, 2>>, <<2, 3>>, <<2, 1>>>>

\* edges = [(0, 1), (1, 2), (2, 0)], counted from 1
TriangleEdges == <<<<1, 2>>, <<2, 3>>, <<3, 1>>>>

\* f"{dist:.0f}": the distance as a whole number of kpc
FormatWhole(dist) == RoundDiv(dist, Scale)

plot_triangle(pos) ==
    LET coords == [i \in 1..3 |-> pos[Names[i]]]
    IN  [e \in DOMAIN TriangleEdges |->
            LET i == TriangleEdges[e][1]
                j == TriangleEdges[e][2]
                p1 == coords[i]
                p2 == coords[j]
            IN  [from |-> Names[i], to |-> Names[j],
                 mid |-> [k \in 1..3 |-> RoundDiv(p1[k] + p2[k], 2)],
                 label |-> [kpc |-> FormatWhole(Norm(VSub(p2, p1))),
                            unit |-> "kpc"]]]

SeqMax(s) == Max({s[i] : i \in DOMAIN s})

\* distances of the tail's points from NGC 3628
TailDistances(tail, pos) ==
    [i \in DOMAIN tail |-> Norm(VSub(tail[i], pos["NGC 3628"]))]

NaN == "nan"

TailSizesInverted(distances) ==
    [i \in DOMAIN distances |->
        4 * Scale - 3 * FDiv(distances[i], SeqMax(distances))]

\* sizes = 1 + 3 * (distances / distances.max())
TailSizes(distances) ==
    [i \in DOMAIN distances |->
        IF SeqMax(distances) = 0 THEN NaN
        ELSE Scale + 3 * FDiv(distances[i], SeqMax(distances))]

\* alphas = TAIL_ALPHA * (0.5 + 0.5 * distances / distances.max())
TailAlphas(distances) ==
    [i \in DOMAIN distances |->
        IF SeqMax(distances) = 0 THEN NaN
        ELSE FMul(TAIL_ALPHA,
                  Scale \div 2
                  + FDiv(FMul(Scale \div 2, distances[i]), SeqMax(distances)))]

Buttons == {"up", "down"}

ZoomAxisSameScale(lim, button) ==
    LET mid == RoundDiv(lim[1] + lim[2], 2)
        half == RoundDiv(RoundDiv((lim[2] - lim[1]) * ZoomNum, ZoomDen), 2)
    IN  <<mid - half, mid + half>>

\* one axis of on_scroll: the limits scaled about their midpoint; the
\* factor 1.2 or 1/1.2 is exact to more digits than the grid, so the
\* product is rounded once
ZoomAxis(lim, button) ==
    LET mid == RoundDiv(lim[1] + lim[2], 2)
        width == lim[2] - lim[1]
        scaled == IF button = "up" THEN RoundDiv(width * ZoomDen, ZoomNum)
                  ELSE RoundDiv(width * ZoomNum, ZoomDen)
        half == RoundDiv(scaled, 2)
    IN  <<mid - half, mid + half>>

Axes3 == {"x", "y", "z"}

on_scroll_skip_z(lims, button) ==
    [a \in Axes3 |-> IF a = "z" THEN lims[a] ELSE ZoomAxis(lims[a], button)]

\* on_scroll: the same factor is applied to the x, y and z limits in turn
on_scroll(lims, button) == [a \in Axes3 |-> ZoomAxis(lims[a], button)]

\* the limits of a fresh 3D axes
DefaultLimits == [a \in Axes3 |-> <<0, Scale>>]

DefaultView == [elev |-> 30, azim |-> -60]

NoArt == <<>>

(***************************************************************************)
(* main                                                                    *)
(***************************************************************************)
PlotBodyZoomFirst ==
    <<"setup_figure", "enable_zoom", "plot_galaxies", "plot_center",
      "plot_triangle", "plot_tidal_tail", "plot_earth", "setup_axes",
      "tight_layout">>

\* the statements of LeoTripletPlotter.plot, in order
PlotBody ==
    <<"setup_figure", "plot_galaxies", "plot_center", "plot_triangle",
      "plot_tidal_tail", "plot_earth", "setup_axes", "enable_zoom",
      "tight_layout">>

TryBodyPlotFirst ==
    <<"LeoTripletPlotter">> \o PlotBody
    \o <<"verify_conventions", "references", "show", "event_loop", "report">>

\* the statements of the try body of main, plot() inlined, in order; show
\* is the call of plt.show(), event_loop its blocking until the window closes
TryBody ==
    <<"verify_conventions", "references", "LeoTripletPlotter">> \o PlotBody
    \o <<"show", "event_loop", "report">>

\* the statement after s, "done" after the last
After(s) ==
    LET i == CHOOSE j \in DOMAIN TryBody : TryBody[j] = s
    IN  IF i = Len(TryBody) THEN "done" ELSE TryBody[i + 1]

\* statement s completes: it is logged and pc moves to the next one
Step(s) ==
    /\ pc = s
    /\ pc' = After(s)
    /\ events' = Append(events, s)

\* an exception leaves the try body: an Exception reaches the except
\* clause, any other BaseException ends the process uncaught
RaiseException(type, msg) ==
    /\ pc' = IF type \in ExceptionTypes THEN "except" ELSE "failed"
    /\ exc' = [type |-> type, msg |-> msg]

\* the state main() starts in, for table t and Config c
Start(t, c) ==
    /\ table = t
    /\ config = c
    /\ pc = TryBody[1]
    /\ stdout = <<>>
    /\ exc = NoExc
    /\ handled = 0
    /\ positions = NoArt
    /\ events = <<>>
    /\ triangle = NoArt
    /\ tailArt = NoArt
    /\ limits = DefaultLimits
    /\ view = DefaultView
    /\ zoomConnected = FALSE
    /\ scrollLog = <<>>
    /\ reportedTailDir = NoArt

Init == \E n \in 0..MaxTailPoints : Start(GalaxyTable, DefaultConfig(n))

VerifyConventions ==
    /\ pc = "verify_conventions"
    /\ LET p == get_positions(table)
           f == FirstFailure(p)
       IN  IF f = 0
           THEN /\ stdout' = stdout \o VerifyHeader \o GalaxyLines(3, TRUE)
                                \o <<"TIDAL TAIL:">>
                /\ reportedTailDir' = get_tail_direction
                /\ Step("verify_conventions")
                /\ UNCHANGED exc
           ELSE /\ stdout' = stdout \o VerifyHeader \o GalaxyLines(f, FALSE)
                /\ RaiseException("AssertionError",
                                  FailedAssert(Names[f], p[Names[f]]))
                /\ UNCHANGED <<events, reportedTailDir>>
    /\ UNCHANGED <<table, config, handled, positions, triangle, tailArt,
                   limits, view, zoomConnected, scrollLog>>

PrintReferences ==
    /\ Step("references")
    /\ stdout' = Append(stdout, "DATA REFERENCES")
    /\ UNCHANGED <<table, config, exc, handled, positions, triangle, tailArt,
                   limits, view, zoomConnected, scrollLog, reportedTailDir>>

\* plotter = LeoTripletPlotter()
Construct ==
    /\ Step("LeoTripletPlotter")
    /\ positions' = get_positions(table)
    /\ UNCHANGED <<table, config, stdout, exc, handled, triangle, tailArt,
                   limits, view, zoomConnected, scrollLog, reportedTailDir>>

SetupFigure ==
    /\ Step("setup_figure")
    /\ limits' = DefaultLimits
    /\ view' = DefaultView
    /\ UNCHANGED <<table, config, stdout, exc, handled, positions, triangle,
                   tailArt, zoomConnected, scrollLog, reportedTailDir>>

PlotGalaxies ==
    /\ Step("plot_galaxies")
    /\ UNCHANGED <<table, config, stdout, exc, handled, positions, triangle,
                   tailArt, limits, view, zoomConnected, scrollLog,
                   reportedTailDir>>

PlotCenter ==
    /\ Step("plot_center")
    /\ UNCHANGED <<table, config, stdout, exc, handled, positions, triangle,
                   tailArt, limits, view, zoomConnected, scrollLog,
                   reportedTailDir>>

PlotTriangle ==
    /\ Step("plot_triangle")
    /\ triangle' = plot_triangle(positions)
    /\ UNCHANGED <<table, config, stdout, exc, handled, positions, tailArt,
                   limits, view, zoomConnected, scrollLog, reportedTailDir>>

PlotTidalTail ==
    /\ pc = "plot_tidal_tail"
    /\ \E t \in BetaDraws(config.TAIL_POINTS),
          noise \in NormalDraws(config.TAIL_POINTS) :
          LET tail == generate(config, positions, t, noise)
              distances == TailDistances(tail, positions)
          IN  IF Len(tail) = 0
              THEN \* distances.max() of an empty array
                   /\ RaiseException("ValueError", "zero-size array")
                   /\ UNCHANGED <<events, tailArt>>
              ELSE /\ Step("plot_tidal_tail")
                   /\ tailArt' = [points |-> tail,
                                  sizes |-> TailSizes(distances),
                                  alphas |-> TailAlphas(distances)]
                   /\ UNCHANGED exc
    /\ UNCHANGED <<table, config, stdout, handled, positions, triangle,
                   limits, view, zoomConnected, scrollLog, reportedTailDir>>

PlotEarth ==
    /\ Step("plot_earth")
    /\ UNCHANGED <<table, config, stdout, exc, handled, positions, triangle,
                   tailArt, limits, view, zoomConnected, scrollLog,
                   reportedTailDir>>

\* the symmetric cube set_xlim / set_ylim / set_zlim make
AxisCube == [a \in Axes3 |-> <<-(AXIS_LIMIT * Scale), AXIS_LIMIT * Scale>>]

\* view_init(elev=-90, azim=90)
InitialView == [elev |-> -90, azim |-> 90]

\* the azimuth the module docstring, verify_conventions and the completion
\* report name: "View rotated with azim=-90"
DocumentedAzim == -90

SetupAxes ==
    /\ Step("setup_axes")
    /\ limits' = AxisCube
    /\ view' = InitialView
    /\ UNCHANGED <<table, config, stdout, exc, handled, positions, triangle,
                   tailArt, zoomConnected, scrollLog, reportedTailDir>>

EnableZoom ==
    /\ Step("enable_zoom")
    /\ zoomConnected' = TRUE
    /\ UNCHANGED <<table, config, stdout, exc, handled, positions, triangle,
                   tailArt, limits, view, scrollLog, reportedTailDir>>

TightLayout ==
    /\ Step("tight_layout")
    /\ UNCHANGED <<table, config, stdout, exc, handled, positions, triangle,
                   tailArt, limits, view, zoomConnected, scrollLog,
                   reportedTailDir>>

\* plotter.show() is called and blocks in the event loop
ShowEnter ==
    /\ Step("show")
    /\ UNCHANGED <<table, config, stdout, exc, handled, positions, triangle,
                   tailArt, limits, view, zoomConnected, scrollLog,
                   reportedTailDir>>

\* a scroll event arrives while the window is shown
OnScroll ==
    /\ pc = "event_loop"
    /\ zoomConnected
    /\ Len(scrollLog) < MaxScroll
    /\ \E button \in Buttons :
          /\ limits' = on_scroll(limits, button)
          /\ scrollLog' = Append(scrollLog,
                                 [button |-> button, before |-> limits,
                                  after |-> on_scroll(limits, button)])
    /\ UNCHANGED <<table, config, pc, stdout, exc, handled, positions, events,
                   triangle, tailArt, view, zoomConnected, reportedTailDir>>

\* the window is closed: plt.show() returns
ShowReturn ==
    /\ Step("event_loop")
    /\ UNCHANGED <<table, config, stdout, exc, handled, positions, triangle,
                   tailArt, limits, view, zoomConnected, scrollLog,
                   reportedTailDir>>

ReportLines == <<"VISUALIZATION COMPLETE", "[ok] View rotated with azim=-90">>

Report ==
    /\ Step("report")
    /\ stdout' = stdout \o ReportLines
    /\ UNCHANGED <<table, config, exc, handled, positions, triangle, tailArt,
                   limits, view, zoomConnected, scrollLog, reportedTailDir>>

\* the statements before the report in which the environment can raise: a
\* print to a closed or non-UTF-8 stdout, a backend failure, Ctrl-C
Raising == {TryBody[i] : i \in 1..(Len(TryBody) - 1)}

\* the running statement raises an exception that derives from Exception
EnvironmentRaises ==
    /\ pc \in Raising
    /\ RaiseException("EnvironmentError", "environment")
    /\ UNCHANGED <<table, config, stdout, handled, positions, events,
                   triangle, tailArt, limits, view, zoomConnected, scrollLog,
                   reportedTailDir>>

\* the running statement is interrupted by a BaseException that is no
\* Exception
Interrupted ==
    /\ pc \in Raising
    /\ RaiseException("KeyboardInterrupt", "")
    /\ UNCHANGED <<table, config, stdout, handled, positions, events,
                   triangle, tailArt, limits, view, zoomConnected, scrollLog,
                   reportedTailDir>>

HandlerSwallows ==
    /\ pc = "except"
    /\ stdout' = Append(stdout, "Error: " \o exc.msg)
    /\ handled' = handled + 1
    /\ pc' = "done"
    /\ UNCHANGED <<table, config, exc, positions, events, triangle, tailArt,
                   limits, view, zoomConnected, scrollLog, reportedTailDir>>

\* except Exception as e: print(f"Error: {e}"); raise
Handler ==
    /\ pc = "except"
    /\ stdout' = Append(stdout, "Error: " \o exc.msg)
    /\ handled' = handled + 1
    /\ pc' = "failed"
    /\ UNCHANGED <<table, config, exc, positions, events, triangle, tailArt,
                   limits, view, zoomConnected, scrollLog, reportedTailDir>>

Next ==
    \/ VerifyConventions
    \/ PrintReferences
    \/ Construct
    \/ SetupFigure
    \/ PlotGalaxies
    \/ PlotCenter
    \/ PlotTriangle
    \/ PlotTidalTail
    \/ PlotEarth
    \/ SetupAxes
    \/ EnableZoom
    \/ TightLayout
    \/ ShowEnter
    \/ OnScroll
    \/ ShowReturn
    \/ Report
    \/ EnvironmentRaises
    \/ Interrupted
    \/ Handler

\* main() on the program's own tables
Spec == Init /\ [][Next]_vars

(***************************************************************************)
(* Other tables, other limits.                                             *)
(***************************************************************************)
\* entries a table may hold: the three of the program and two more
GalaxySamples ==
    {[ra |-> RA[n], dec |-> DEC[n], redshift |-> REDSHIFT[n]] : n \in NameSet}
    \cup {[ra |-> Sexagesimal(11, 21, 0), dec |-> Sexagesimal(13, 50, 1),
           redshift |-> 900],
          [ra |-> Sexagesimal(11, 19, 30), dec |-> Sexagesimal(12, 40, 0),
           redshift |-> 700]}

\* every table of three entries
Tables ==
    {[ra |-> [n \in NameSet |-> g[n].ra],
      dec |-> [n \in NameSet |-> g[n].dec],
      redshift |-> [n \in NameSet |-> g[n].redshift]] :
        g \in [NameSet -> GalaxySamples]}

InitData == \E t \in Tables : \E n \in 0..1 : Start(t, DefaultConfig(n))

\* main() on any table
SpecData == InitData /\ [][Next]_vars

\* a call of GalaxyData.get_positions()
CallGetPositions ==
    /\ positions = NoArt
    /\ positions' = get_positions(table)
    /\ UNCHANGED <<table, config, pc, stdout, exc, handled, events, triangle,
                   tailArt, limits, view, zoomConnected, scrollLog,
                   reportedTailDir>>

\* get_positions on any table
SpecGetPositions == InitData /\ [][CallGetPositions]_vars

\* limits an axis may have after the user has panned or zoomed the view
LimitSamples ==
    {<<-(AXIS_LIMIT * Scale), AXIS_LIMIT * Scale>>,
     <<-12345, 4321>>, <<0, Scale>>, <<333, 1000>>}

\* the window is shown, the axes have any limits
InitZoom ==
    /\ table = GalaxyTable
    /\ config = DefaultConfig(1)
    /\ pc = "event_loop"
    /\ stdout = VerifyHeader \o GalaxyLines(3, TRUE)
                \o <<"TIDAL TAIL:", "DATA REFERENCES">>
    /\ exc = NoExc
    /\ handled = 0
    /\ positions = get_positions(GalaxyTable)
    /\ events = SubSeq(TryBody, 1, Len(TryBody) - 2)
    /\ triangle = plot_triangle(get_positions(GalaxyTable))
    /\ \E t \in BetaDraws(1), noise \in NormalDraws(1) :
          LET tail == generate(config, get_positions(GalaxyTable), t, noise)
              distances == TailDistances(tail, get_positions(GalaxyTable))
          IN  tailArt = [points |-> tail, sizes |-> TailSizes(distances),
                         alphas |-> TailAlphas(distances)]
    /\ limits \in [Axes3 -> LimitSamples]
    /\ view = InitialView
    /\ zoomConnected = TRUE
    /\ scrollLog = <<>>
    /\ reportedTailDir = get_tail_direction

\* scroll events on any limits
SpecZoom == InitZoom /\ [][OnScroll]_vars

\* tail directions a caller may set in the Config it passes to
\* LeoTripletPlotter(config): the default, due north, and due west
DirectionSamples == {TAIL_DIRECTION, <<0, Scale, 0>>, <<-Scale, 0, 0>>}

\* the run starts with the Config the plotter is constructed with
InitConfig ==
    \E d \in DirectionSamples : \E n \in 0..1 :
        Start(GalaxyTable, [TAIL_POINTS |-> n, TAIL_DIRECTION |-> d])

\* the steps of main with a plotter built from any Config
SpecConfig == InitConfig /\ [][Next]_vars

(***************************************************************************)
(* Properties                                                              *)
(***************************************************************************)
Range(f) == {f[i] : i \in DOMAIN f}

IsPrefix(a, b) == Len(a) <= Len(b) /\ a = SubSeq(b, 1, Len(a))

\* first index of e in sequence q, 0 when absent
IndexOf(q, e) ==
    IF e \in Range(q) THEN Min({i \in DOMAIN q : q[i] = e}) ELSE 0

Count(q, e) == Cardinality({i \in DOMAIN q : q[i] = e})

HavePositions == DOMAIN positions = NameSet

HaveTriangle == triangle # NoArt

HaveTail == DOMAIN tailArt = {"points", "sizes", "alphas"}

\* component-wise sum of the three centred positions
PositionSum ==
    [k \in 1..3 |->
        positions[Names[1]][k] + positions[Names[2]][k] + positions[Names[3]][k]]

\* C1 as stated: the positions get_positions returns sum to exactly the
\* zero vector, for any table.
C1_SumExactlyZero == HavePositions => PositionSum = Zero3

\* C1 amended: for any table, the positions get_positions returns sum to the
\* zero vector up to floating-point rounding: every component of the sum is
\* within one unit of the last place of zero.
C1_SumZeroWithinRounding ==
    HavePositions =>
        /\ positions = get_positions(table)
        /\ \A k \in 1..3 : Abs(PositionSum[k]) <= 1

C1_Witness ==
    /\ HavePositions
    /\ table # GalaxyTable
    /\ positions[Names[2]] # positions[Names[3]]
    /\ PositionSum # Zero3

\* C2: with the program's RA/Dec/redshift constants no assert of
\* verify_conventions fails: NGC 3628 is north of the centre, M66 east and
\* south, M65 west and south, and verify_conventions returns unless the
\* environment interrupts it.
C2_ConventionsHold ==
    /\ exc.type # "AssertionError"
    /\ FirstFailure(get_positions(table)) = 0
    /\ "verify_conventions" \in Range(events) =>
          /\ \A i \in 1..3 : OkLine(Names[i]) \in Range(stdout)
          /\ reportedTailDir # NoArt
    /\ HavePositions =>
          /\ positions["NGC 3628"][2] > 0
          /\ positions["M66"][1] > 0 /\ positions["M66"][2] < 0
          /\ positions["M65"][1] < 0 /\ positions["M65"][2] < 0

C2_Witness ==
    /\ "verify_conventions" \in Range(events)
    /\ HavePositions
    /\ table = GalaxyTable

\* the draw steps of plot, in the order the claim requires
DrawOrder ==
    <<"setup_figure", "plot_galaxies", "plot_center", "plot_triangle",
      "plot_tidal_tail", "plot_earth", "setup_axes", "enable_zoom">>

IsDrawStep(e) == e \in Range(DrawOrder)

\* C3: plot runs the draw steps once each in the required order: canvas,
\* galaxies, centre, triangle, tail, Earth, axes, zoom handler; nothing is
\* drawn before the canvas exists and the zoom handler is attached only
\* after every layer is drawn.
C3_DrawOrder ==
    /\ IsPrefix(SelectSeq(events, IsDrawStep), DrawOrder)
    /\ "tight_layout" \in Range(events) =>
          SelectSeq(events, IsDrawStep) = DrawOrder
    /\ zoomConnected =>
          \A i \in 1..7 : DrawOrder[i] \in Range(events)
    /\ (HaveTriangle \/ HaveTail) =>
          "setup_figure" \in Range(events)

C3_Witness ==
    /\ "tight_layout" \in Range(events)
    /\ zoomConnected
    /\ HaveTail

\* the limits of scroll event i + 1 are those before event i, within tol
RestoredWithin(i, tol) ==
    \A a \in Axes3 : \A b \in 1..2 :
        Abs(scrollLog[i + 1].after[a][b] - scrollLog[i].before[a][b]) <= tol

\* scroll events i and i + 1 are a zoom-out and a zoom-in, in either order
OppositePair(i) ==
    /\ i \in 1..(Len(scrollLog) - 1)
    /\ scrollLog[i].button # scrollLog[i + 1].button
    /\ scrollLog[i + 1].before = scrollLog[i].after

\* C4 as stated: a zoom-out followed by a zoom-in, or a zoom-in followed
\* by a zoom-out, restores both limits of every axis exactly.
C4_RoundTripExact ==
    \A i \in 1..MaxScroll : OppositePair(i) => RestoredWithin(i, 0)

\* C4 amended: a zoom-out followed by a zoom-in, or the reverse, restores
\* both limits of every axis up to floating-point rounding (within two
\* units of the last place), not exactly.
C4_RoundTripWithinRounding ==
    \A i \in 1..MaxScroll : OppositePair(i) => RestoredWithin(i, 2)

C4_Witness ==
    \E i \in 1..MaxScroll :
        /\ OppositePair(i)
        /\ scrollLog[i].button = "down"
        /\ scrollLog[i].before["x"] # scrollLog[i].before["y"]
        /\ scrollLog[i].after # scrollLog[i].before

ErrorLines == {i \in DOMAIN stdout : stdout[i] = "Error: " \o exc.msg}

\* C5 as stated: any exception raised in main before the report is caught
\* once at the top level and printed once with the prefix "Error: " before
\* the process fails.
C5_EveryExceptionCaught ==
    pc = "failed" => handled = 1 /\ Cardinality(ErrorLines) = 1

\* C5 amended: an exception that derives from Exception is caught exactly
\* once, printed once with the prefix "Error: " and re-raised, so the
\* process fails; a BaseException that is no Exception (KeyboardInterrupt)
\* ends the process without passing the handler or being printed; either
\* way the completion report is not printed, and it is printed only on a
\* run without exception.
C5_ExceptionsCaughtOnce ==
    /\ handled <= 1
    /\ exc # NoExc => pc \in {"except", "failed"}
    /\ (pc = "failed" /\ exc.type \in {"AssertionError", "ValueError",
                                        "EnvironmentError"}) =>
          /\ handled = 1
          /\ Cardinality(ErrorLines) = 1
          /\ stdout[Len(stdout)] = "Error: " \o exc.msg
    /\ (pc = "failed" /\ exc.type = "KeyboardInterrupt") =>
          /\ handled = 0
          /\ ErrorLines = {}
    /\ pc = "done" => exc = NoExc /\ handled = 0
    /\ exc # NoExc => "VISUALIZATION COMPLETE" \notin Range(stdout)
    /\ "VISUALIZATION COMPLETE" \in Range(stdout) => exc = NoExc /\ pc = "done"

C5_Witness ==
    /\ pc = "failed"
    /\ exc.type = "ValueError"
    /\ handled = 1
    /\ "plot_triangle" \in Range(events)

NoFigure ==
    /\ "LeoTripletPlotter" \notin Range(events)
    /\ "setup_figure" \notin Range(events)
    /\ "show" \notin Range(events)
    /\ ~HaveTriangle
    /\ ~HaveTail

\* C6 as stated: a failed assert of verify_conventions aborts the run before
\* any figure exists and does not pass the top-level handler: nothing is
\* printed with the prefix "Error: ".
C6_AssertBypassesHandler ==
    exc.type = "AssertionError" =>
        /\ NoFigure
        /\ handled = 0
        /\ \A i \in DOMAIN stdout : stdout[i] # "Error: " \o exc.msg

\* C6 amended: a failed assert of verify_conventions aborts the run before
\* any figure is created or shown, and it does pass the top-level handler:
\* the AssertionError is caught, its message printed once with the prefix
\* "Error: ", and re-raised, so the process fails.
C6_AssertAbortsThroughHandler ==
    exc.type = "AssertionError" =>
        /\ NoFigure
        /\ events = <<>>
        /\ pc \in {"except", "failed"}
        /\ exc.msg = FailedAssert(Names[FirstFailure(get_positions(table))],
                        get_positions(table)[Names[FirstFailure(get_positions(table))]])
        /\ pc = "failed" =>
              /\ handled = 1
              /\ stdout[Len(stdout)] = "Error: " \o exc.msg
              /\ Count(stdout, "Error: " \o exc.msg) = 1

C6_Witness ==
    /\ exc.type = "AssertionError"
    /\ pc = "failed"
    /\ handled = 1

DrawnDistances == TailDistances(tailArt.points, positions)

RampInRange ==
    \A i \in DOMAIN tailArt.points :
        /\ Scale <= tailArt.sizes[i] /\ tailArt.sizes[i] <= 4 * Scale
        /\ 2 * tailArt.alphas[i] >= TAIL_ALPHA
        /\ tailArt.alphas[i] <= TAIL_ALPHA

\* C7 as stated: with a positive maximum distance every tail point has a
\* size in [1, 4] and an opacity in [0.5 TAIL_ALPHA, TAIL_ALPHA], and of two
\* points the one closer to NGC 3628 has the larger-or-equal size and
\* opacity.
C7_CloserIsLarger ==
    (HaveTail /\ SeqMax(DrawnDistances) > 0) =>
        /\ RampInRange
        /\ \A i, j \in DOMAIN tailArt.points :
              DrawnDistances[i] <= DrawnDistances[j] =>
                 /\ tailArt.sizes[i] >= tailArt.sizes[j]
                 /\ tailArt.alphas[i] >= tailArt.alphas[j]

\* C7 amended: with a positive maximum distance every tail point has a size
\* in [1, 4] and an opacity in [0.5 TAIL_ALPHA, TAIL_ALPHA], and of two
\* points the one farther from NGC 3628 has the larger-or-equal size and
\* opacity; the farthest has size 4 and opacity TAIL_ALPHA.
C7_FartherIsLarger ==
    (HaveTail /\ SeqMax(DrawnDistances) > 0) =>
        /\ RampInRange
        /\ \A i, j \in DOMAIN tailArt.points :
              DrawnDistances[i] <= DrawnDistances[j] =>
                 /\ tailArt.sizes[i] <= tailArt.sizes[j]
                 /\ tailArt.alphas[i] <= tailArt.alphas[j]
        /\ \A i \in DOMAIN tailArt.points :
              DrawnDistances[i] = SeqMax(DrawnDistances) =>
                 /\ tailArt.sizes[i] = 4 * Scale
                 /\ tailArt.alphas[i] = TAIL_ALPHA

C7_Witness ==
    /\ HaveTail
    /\ \E i, j \in DOMAIN tailArt.points :
          /\ DrawnDistances[i] < DrawnDistances[j]
          /\ tailArt.sizes[i] < tailArt.sizes[j]
          /\ tailArt.alphas[i] < tailArt.alphas[j]

\* C8: for every TAIL_POINTS and every outcome of the random draws the
\* tail has exactly TAIL_POINTS points of three components each, one size
\* and one opacity per point.
C8_TailLength ==
    /\ HaveTail =>
          /\ Len(tailArt.points) = config.TAIL_POINTS
          /\ DOMAIN tailArt.points = 1..config.TAIL_POINTS
          /\ \A i \in DOMAIN tailArt.points : Len(tailArt.points[i]) = 3
          /\ Len(tailArt.sizes) = config.TAIL_POINTS
          /\ Len(tailArt.alphas) = config.TAIL_POINTS
    /\ "plot_tidal_tail" \in Range(events) => HaveTail

C8_Witness ==
    /\ HaveTail
    /\ config.TAIL_POINTS > 1
    /\ tailArt.points[1] # tailArt.points[2]

EdgePairs == {{triangle[e].from, triangle[e].to} : e \in DOMAIN triangle}

\* the three edges cover each unordered pair of galaxies once
EdgesCoverPairs ==
    /\ Len(triangle) = 3
    /\ \A e \in DOMAIN triangle : triangle[e].from # triangle[e].to
    /\ EdgePairs = {{a, b} : a, b \in NameSet} \ {{a} : a \in NameSet}

EdgeNorm(e) == Norm(VSub(positions[triangle[e].to], positions[triangle[e].from]))

\* C9 as stated: three edges, one per pair of galaxies, each labelled with
\* the Euclidean norm of the difference of its own endpoints.
C9_LabelIsNorm ==
    HaveTriangle =>
        /\ EdgesCoverPairs
        /\ \A e \in DOMAIN triangle : triangle[e].label.kpc * Scale = EdgeNorm(e)

\* C9 amended: three edges, one per pair of galaxies, each labelled at its
\* midpoint with the Euclidean norm of the difference of its own endpoints
\* rounded to a whole number of kpc (format .0f) and followed by " kpc".
C9_LabelIsRoundedNorm ==
    HaveTriangle =>
        /\ EdgesCoverPairs
        /\ \A e \in DOMAIN triangle :
              /\ triangle[e].label = [kpc |-> RoundDiv(EdgeNorm(e), Scale),
                                      unit |-> "kpc"]
              /\ \A k \in 1..3 :
                    Abs(2 * triangle[e].mid[k]
                        - positions[triangle[e].from][k]
                        - positions[triangle[e].to][k]) <= 1

C9_Witness ==
    /\ HaveTriangle
    /\ \E e \in DOMAIN triangle :
          /\ triangle[e].label.kpc > 0
          /\ triangle[e].label.kpc * Scale # EdgeNorm(e)

\* the events of main, in the order the claim requires
MainOrder ==
    <<"verify_conventions", "references", "LeoTripletPlotter", "setup_figure",
      "tight_layout", "show", "event_loop", "report">>

IsMainEvent(e) == e \in Range(MainOrder)

\* C10: in every run of main verification completes, then the references
\* are printed, then the plotter is built and plot runs, then show is
\* entered; rendering never starts before verification has succeeded and
\* the completion report is printed only after show has returned.
C10_MainOrder ==
    /\ IsPrefix(SelectSeq(events, IsMainEvent), MainOrder)
    /\ \A e \in Range(events) : Count(events, e) = 1
    /\ (HavePositions \/ "setup_figure" \in Range(events)) =>
          /\ "verify_conventions" \in Range(events)
          /\ reportedTailDir # NoArt
          /\ "DATA REFERENCES" \in Range(stdout)
    /\ pc = "event_loop" => "tight_layout" \in Range(events)
    /\ scrollLog # <<>> => "show" \in Range(events)
    /\ "VISUALIZATION COMPLETE" \in Range(stdout) =>
          "event_loop" \in Range(events)

C10_Witness ==
    /\ pc = "done"
    /\ "VISUALIZATION COMPLETE" \in Range(stdout)
    /\ scrollLog # <<>>

RECURSIVE Pow(_, _)
Pow(b, n) == IF n = 0 THEN 1 ELSE b * Pow(b, n - 1)

AxisWidth(lim) == lim[2] - lim[1]

\* the scroll events handled so far that zoom in, and those that zoom out
Ups == Cardinality({i \in DOMAIN scrollLog : scrollLog[i].button = "up"})

Downs == Len(scrollLog) - Ups

\* the cube of setup_axes is in place and only on_scroll has changed it
CubeSet == "setup_axes" \in Range(events)

\* every axis keeps the midpoint of the cube, keeps its lower limit below
\* its upper limit, and has the range of the other two
ZoomKeepsShape ==
    /\ \A a \in Axes3 :
          /\ limits[a][1] + limits[a][2] = AxisCube[a][1] + AxisCube[a][2]
          /\ limits[a][1] < limits[a][2]
    /\ \A a, b \in Axes3 : AxisWidth(limits[a]) = AxisWidth(limits[b])
    /\ \A i \in DOMAIN scrollLog : \A a \in Axes3 :
          IF scrollLog[i].button = "up"
          THEN AxisWidth(scrollLog[i].after[a]) < AxisWidth(scrollLog[i].before[a])
          ELSE AxisWidth(scrollLog[i].after[a]) > AxisWidth(scrollLog[i].before[a])

\* the width of every axis is the width of the cube times
\* ZOOM_SCALE^(Downs - Ups), within tol units of the last place
WidthWithin(tol) ==
    \A a \in Axes3 :
        Abs(AxisWidth(limits[a]) * Pow(ZoomDen, Downs) * Pow(ZoomNum, Ups)
            - AxisWidth(AxisCube[a]) * Pow(ZoomNum, Downs) * Pow(ZoomDen, Ups))
          <= tol * Pow(ZoomDen, Downs) * Pow(ZoomNum, Ups)

\* C11 as stated: after any sequence of scroll events on the cube of
\* setup_axes every axis keeps its midpoint, its lower limit stays below
\* its upper limit, the three ranges stay equal, and the width equals the
\* initial width times ZOOM_SCALE^(d - u) exactly.
C11_WidthExactPower == CubeSet => (ZoomKeepsShape /\ WidthWithin(0))

\* C11 amended: the same, but the width equals the initial width times
\* ZOOM_SCALE^(d - u) only up to floating-point rounding: every event
\* rounds the product, so the error is at most one unit of the last place
\* for each event handled.
C11_WidthPowerWithinRounding ==
    CubeSet => (ZoomKeepsShape /\ WidthWithin(Len(scrollLog)))

C11_Witness ==
    /\ CubeSet
    /\ Ups > 0
    /\ Downs > 0
    /\ ~WidthWithin(0)
    /\ limits # AxisCube

\* C12: the viewing angle setup_axes applies to the 3D axes is the one the
\* program documents and reports on standard output, azim=-90; checked
\* once setup_axes has run and again wherever the report has been printed.
C12_ViewIsDocumented ==
    /\ CubeSet =>
          /\ view.azim = DocumentedAzim
          /\ VerifyHeader[2] \in Range(stdout)
    /\ ReportLines[2] \in Range(stdout) => view.azim = DocumentedAzim

\* the displacement of the tail generate places for a direction vector
RenderedTail(d) == TailVector([TAIL_DIRECTION |-> d])

\* C13: for every Config passed to the plotter, the tail direction that
\* verify_conventions reports as verified is the vector generate uses to
\* place the tail, so the tail that is drawn runs along the verified
\* direction.
C13_VerifiedIsRendered ==
    HaveTail =>
        /\ reportedTailDir = config.TAIL_DIRECTION
        /\ RenderedTail(reportedTailDir) = TailVector(config)

====
